---------------------------- MODULE Spec2Model ----------------------------
(***************************************************************************)
(* Model of the holder-aggregation pipeline of src/src/App.tsx: the        *)
(* RateLimiter class, the two paginated fetchers, the holder aggregator    *)
(* and the policy lookup that drives them.                                 *)
(***************************************************************************)
EXTENDS Integers, Sequences, FiniteSets, TLC

VARIABLES
    \* ---- RateLimiter (App.tsx 149-204) ----
    tokens,         \* RateLimiter.tokens
    timePassed,     \* Date.now() - RateLimiter.lastRefill, in ms, saturated at MaxElapsed
    queue,          \* RateLimiter.queue: the wrapped operations, by id
    processing,     \* RateLimiter.processing
    running,        \* the operation processQueue is awaiting (0: none)
    timerPending,   \* a setTimeout(() => this.processQueue(), ...) is armed
    timerLeft,      \* ms until that timer may fire
    promise,        \* state of the promise schedule() returned, per operation
    submitted,      \* history: operations in the order schedule() was called
    started,        \* history: operations in the order their fn() was invoked
    failed,         \* history: operations whose fn() rejected
    wokeIdle,       \* history: operations whose schedule() call found the limiter idle
    \* ---- one run of fetchAssetsForPolicy / fetchHoldersForAsset (App.tsx 281-351) ----
    fetcher,        \* which of the two functions runs: "assets" or "holders"
    page,           \* let page
    acc,            \* let allAssets / let allHolders
    fstate,         \* "ready" (about to fetch), "awaiting" (fetch in flight), "reading"
                    \* (awaiting response.json() / response.text()), "returned", "thrown"
    status,         \* response.status of the response being read (0: none)
    result,         \* the value returned to the caller
    thrown,         \* the Error thrown to the caller
    requests,       \* history: page numbers requested, in order
    responses,      \* history: responses received, in order
    \* ---- App state and one policy lookup, fetchAssets (App.tsx 209-215, 452-568) ----
    lk,             \* position of the lookup: "idle", "assets", "details", "holders",
                    \* "relations", "done"
    apiKey,         \* window._env_.REACT_APP_BLOCKFROST_API_KEY is set
    loading,        \* useState loading
    error,          \* useState error (NoError for '')
    assets,         \* useState assets
    selectedAsset,  \* useState selectedAsset (0 for '')
    holders,        \* useState holders: the distribution handed to BubbleMap
    totalSupply,    \* useState totalSupply
    path,           \* branch fetchAssets took: "single", "aggregate", "first" ("none" before)
    decimals,       \* assetDetails.decimals
    cur,            \* index in assets of the asset whose holders are being fetched
    holdersMap,     \* aggregateHoldersForAllAssets: holdersMap, in insertion order
    supply,         \* aggregateHoldersForAllAssets: supply / fetchHolders: totalSupply
    formatted,      \* fetchHolders: formattedHolders, while findRelatedWallets runs
    fetched,        \* history: the holder lists fetchHoldersForAsset returned, in order
    holderCalls,    \* history: the assets fetchHoldersForAsset was called for, in order
    \* ---- findRelatedWallets and the relationship cache (App.tsx 353-450) ----
    rel,            \* position of the call: "idle", "batch" (the tasks of a batch run),
                    \* "delay" (the pause between batches), "returned", "thrown"
    relHolders,     \* the holders argument
    batchAt,        \* index in holders of the first holder of the batch (i, 1-based)
    task,           \* per holder of the batch, where its async task has got to
    stakeAddressMap,\* const stakeAddressMap, in insertion order
    relCache,       \* queryClient's data under the keys stake-${address}
    relResult,      \* the value returned
    relCalls,       \* history: how many calls of findRelatedWallets were made
    relLog,         \* history of the call: the holders whose lookups failed, those
                    \* whose lookups both succeeded, and the stakeAddressMap.set calls
    \* ---- fetchHolders calls started by handleAssetChange (App.tsx 452-483, 570-576) ----
    runs,           \* the calls of fetchHolders, in the order they were started
    \* ---- one call of formatTokenAmount (App.tsx 236-253) ----
    fmt             \* its arguments, the divisor it computed and its result

limiterVars == <<tokens, timePassed, queue, processing, running, timerPending,
                 timerLeft, promise, submitted, started, failed, wokeIdle>>

fetchVars == <<fetcher, page, acc, fstate, status, result, thrown, requests, responses>>

lookupVars == <<lk, apiKey, loading, error, assets, selectedAsset, holders, totalSupply,
                path, decimals, cur, holdersMap, supply, formatted, fetched, holderCalls>>

relVars == <<rel, relHolders, batchAt, task, stakeAddressMap, relCache, relResult,
             relCalls, relLog>>

otherVars == <<relVars, runs, fmt>>

vars == <<limiterVars, fetchVars, lookupVars, otherVars>>

\* error === '' and "no Error thrown"
NoError == [kind |-> "none"]

\* No fetcher runs.
NoFetch ==
    /\ fetcher = "none"
    /\ page = 1
    /\ acc = <<>>
    /\ fstate = "returned"
    /\ status = 0
    /\ result = <<>>
    /\ thrown = NoError
    /\ requests = <<>>
    /\ responses = <<>>

\* No lookup runs.
NoLookup ==
    /\ lk = "idle"
    /\ apiKey = TRUE
    /\ loading = FALSE
    /\ error = NoError
    /\ assets = <<>>
    /\ selectedAsset = 0
    /\ holders = <<>>
    /\ totalSupply = [int |-> <<0, 0, 0>>, frac |-> 0]
    /\ path = "none"
    /\ decimals = 0
    /\ cur = 0
    /\ holdersMap = <<>>
    /\ supply = <<0, 0, 0>>
    /\ formatted = <<>>
    /\ fetched = <<>>
    /\ holderCalls = <<>>

\* findRelatedWallets does not run and nothing is cached.
NoRelations ==
    /\ rel = "idle"
    /\ relHolders = <<>>
    /\ batchAt = 1
    /\ task = <<>>
    /\ stakeAddressMap = <<>>
    /\ relCache = {}
    /\ relResult = <<>>
    /\ relCalls = 0
    /\ relLog = [failed |-> {}, succeeded |-> {}, sets |-> <<>>, injected |-> 0]

\* No asset was changed and formatTokenAmount is not being followed.
NoOther ==
    /\ NoRelations
    /\ runs = <<>>
    /\ fmt = [at |-> "none"]

----------------------------------------------------------------------------
(* Program constants, App.tsx 143-146 *)
REQUESTS_PER_SECOND == 10
BURST_LIMIT == 500
REQUEST_INTERVAL == 1000 \div REQUESTS_PER_SECOND

(* Bounds of the model *)
MaxOps == 4          \* schedule() is called at most this many times
MaxElapsed == 300    \* elapsed time since the last refill is tracked up to this (ms)

Min(a, b) == IF a < b THEN a ELSE b
Max(a, b) == IF a > b THEN a ELSE b
Range(s) == {s[i] : i \in DOMAIN s}

\* The clock advances by half an interval or a whole one.
TickSteps == {REQUEST_INTERVAL \div 2, REQUEST_INTERVAL}

----------------------------------------------------------------------------
(* RateLimiter.refillTokens, App.tsx 194-203 *)

NewTokensPerSecond(passed) == passed \div 1000

\* const newTokens = Math.floor(timePassed / REQUEST_INTERVAL)
NewTokens(passed) == passed \div REQUEST_INTERVAL

RefillNoCap(t, passed) == t + NewTokens(passed)

\* this.tokens after refillTokens(): Math.min(BURST_LIMIT, this.tokens + newTokens)
RefillTokens(t, passed) ==
    IF NewTokens(passed) > 0 THEN Min(BURST_LIMIT, t + NewTokens(passed)) ELSE t

\* now - this.lastRefill after refillTokens(): lastRefill = now only if newTokens > 0
RefillTimePassed(passed) == IF NewTokens(passed) > 0 THEN 0 ELSE passed

----------------------------------------------------------------------------
(* RateLimiter.schedule / processQueue, App.tsx 155-192 *)

QueueUnshift(q, f) == <<f>> \o q

\* this.queue.push(wrapper)
QueuePush(q, f) == Append(q, f)

IdleStaysProcessing == TRUE

\* processQueue on an empty queue: this.processing = false
IdleProcessing == FALSE

LimiterIdleAlways == TRUE

\* if (!this.processing) in schedule()
LimiterIdle == ~processing

TimerDueAnytime == TRUE

\* setTimeout(() => this.processQueue(), REQUEST_INTERVAL): the callback runs
\* once the delay has passed
TimerDue == timerLeft = 0

RearmOnlyOnSuccess(ok) == ok

\* After `await fn()` processQueue arms the next timer; the wrapper's try/catch
\* turns a rejection of fn into reject(error), so fn() itself never throws.
RearmAfterSettle(ok) == TRUE

\* The body of processQueue, run on queue value q, up to its first suspension.
ProcessQueue(q) ==
    IF Len(q) = 0
    THEN /\ processing' = IdleProcessing
         /\ queue' = q
         /\ timerPending' = FALSE
         /\ timerLeft' = 0
         /\ UNCHANGED <<tokens, timePassed, running, started>>
    ELSE LET t == RefillTokens(tokens, timePassed) IN
         /\ processing' = TRUE
         /\ timePassed' = RefillTimePassed(timePassed)
         /\ IF t > 0
            THEN \* this.tokens--; fn = this.queue.shift(); await fn()
                 /\ tokens' = t - 1
                 /\ queue' = Tail(q)
                 /\ running' = Head(q)
                 /\ started' = Append(started, Head(q))
                 /\ timerPending' = FALSE
                 /\ timerLeft' = 0
            ELSE \* wait for token refill
                 /\ tokens' = t
                 /\ queue' = q
                 /\ timerPending' = TRUE
                 /\ timerLeft' = REQUEST_INTERVAL
                 /\ UNCHANGED <<running, started>>

\* schedule(fn): push the wrapper, start processQueue if the limiter is idle.
Schedule ==
    /\ Len(submitted) < MaxOps
    /\ LET id == Len(submitted) + 1 IN
       /\ submitted' = Append(submitted, id)
       /\ promise' = [promise EXCEPT ![id] = "pending"]
       /\ IF LimiterIdle
          THEN /\ ProcessQueue(QueuePush(queue, id))
               /\ wokeIdle' = wokeIdle \cup {id}
          ELSE /\ queue' = QueuePush(queue, id)
               /\ UNCHANGED <<tokens, timePassed, processing, running, started,
                              timerPending, timerLeft, wokeIdle>>
    /\ UNCHANGED failed
    /\ UNCHANGED <<fetchVars, lookupVars, otherVars>>

\* The awaited operation settles: the wrapper resolves or rejects the caller's
\* promise, processQueue resumes and arms setTimeout(processQueue, REQUEST_INTERVAL).
OpSettle ==
    /\ running # 0
    /\ \E ok \in BOOLEAN :
        /\ promise' = [promise EXCEPT ![running] = IF ok THEN "resolved" ELSE "rejected"]
        /\ failed' = IF ok THEN failed ELSE failed \cup {running}
        /\ timerPending' = RearmAfterSettle(ok)
        /\ timerLeft' = IF RearmAfterSettle(ok) THEN REQUEST_INTERVAL ELSE 0
    /\ running' = 0
    /\ UNCHANGED <<tokens, timePassed, queue, processing, submitted, started, wokeIdle>>
    /\ UNCHANGED <<fetchVars, lookupVars, otherVars>>

\* The armed timer fires: processQueue runs again.
TimerFire ==
    /\ timerPending
    /\ TimerDue
    /\ ProcessQueue(queue)
    /\ UNCHANGED <<promise, submitted, failed, wokeIdle>>
    /\ UNCHANGED <<fetchVars, lookupVars, otherVars>>

\* Time passes: Date.now() advances and the armed timer gets closer to firing.
Tick ==
    \E dt \in TickSteps :
        /\ timePassed' = Min(timePassed + dt, MaxElapsed)
        /\ timerLeft' = IF timerPending THEN Max(timerLeft - dt, 0) ELSE 0
        /\ UNCHANGED <<tokens, queue, processing, running, timerPending, promise,
                       submitted, started, failed, wokeIdle>>
        /\ UNCHANGED <<fetchVars, lookupVars, otherVars>>

InitLimiter ==
    /\ tokens = BURST_LIMIT
    /\ timePassed = 0
    /\ queue = <<>>
    /\ processing = FALSE
    /\ running = 0
    /\ timerPending = FALSE
    /\ timerLeft = 0
    /\ promise = [i \in 1..MaxOps |-> "none"]
    /\ submitted = <<>>
    /\ started = <<>>
    /\ failed = {}
    /\ wokeIdle = {}

InitLimiterOnly == InitLimiter /\ NoFetch /\ NoLookup /\ NoOther

NextLimiter ==
    \/ Schedule
    \/ OpSettle
    \/ TimerFire
    \/ Tick

SpecLimiter == InitLimiterOnly /\ [][NextLimiter]_vars

\* The event loop fires due timers, the clock advances, and a started fetch settles.
FairLimiter ==
    /\ SpecLimiter
    /\ WF_vars(Tick)
    /\ WF_vars(TimerFire)
    /\ WF_vars(OpSettle)

----------------------------------------------------------------------------
(* Properties of the RateLimiter *)

Settled == {"resolved", "rejected"}

\* C1: the operations started so far are, in order, a prefix of the operations
\* submitted so far: none is skipped, reordered or started twice.
C1_StartedIsPrefixOfSubmitted ==
    /\ Len(started) <= Len(submitted)
    /\ \A i \in 1..Len(started) : started[i] = submitted[i]

\* Two operations were started in order while two more, submitted during the
\* drain, wait in the queue.
C1_Witness == Len(started) >= 2 /\ Len(queue) >= 2

\* C2: every submitted operation is eventually started and its promise settled,
\* and no operation is ever started twice.
C2_EveryOperationExecutedOnce ==
    /\ \A i \in 1..MaxOps :
          (promise[i] = "pending") ~> (i \in Range(started) /\ promise[i] \in Settled)
    /\ [](\A i, j \in 1..Len(started) : started[i] = started[j] => i = j)

\* An operation submitted after the limiter had gone idle again has settled.
C2_Witness == \E i \in wokeIdle : i > 1 /\ promise[i] \in Settled

\* C3: the permit count stays within 0..BURST_LIMIT, and an operation is started
\* only with a permit available after the refill, which that start consumes.
C3_PermitsBoundedAndConsumed ==
    /\ [](0 <= tokens /\ tokens <= BURST_LIMIT)
    /\ [][started' # started =>
            /\ RefillTokens(tokens, timePassed) > 0
            /\ tokens' = RefillTokens(tokens, timePassed) - 1]_vars

\* A second operation has consumed a permit after a refill took place.
C3_Witness == Len(started) >= 2 /\ tokens = BURST_LIMIT - 1 /\ timePassed = 0

\* C4: a failing operation rejects its own promise and no other; no submitted
\* operation leaves the queue without being started; and once an operation has
\* failed, every operation still queued is started all the same.
C4_FailureIsContained ==
    /\ [](\A i \in 1..MaxOps : promise[i] = "rejected" <=> i \in failed)
    /\ [](\A i \in Range(submitted) : i \in Range(queue) \/ i \in Range(started))
    /\ \A i \in 1..MaxOps :
          (failed # {} /\ i \in Range(queue)) ~> (i \in Range(started))

\* An operation queued behind a failing one has run and resolved.
C4_Witness ==
    \E j \in failed : \E i \in Range(started) : i > j /\ promise[i] = "resolved"

----------------------------------------------------------------------------
(* The paginated fetchers, App.tsx 281-351, and handleApiError, App.tsx 578-588 *)

\* const count = 100 (App.tsx 284, 319); const maxHolders = 150 (App.tsx 320)
count == 100
maxHolders == 150

MaxPages == 4        \* the provider holds at most this many pages of records

\* response.ok: a status in 200..299
ResponseOk(resp) == resp.status >= 200 /\ resp.status <= 299

HandleApiErrorSilent(st, errorText) == [throws |-> FALSE, error |-> NoError]

\* handleApiError(status, errorText): every path throws.
HandleApiError(st, errorText) ==
    IF st = 404
    THEN [throws |-> TRUE,
          error |-> [kind |-> "Error",
                     message |-> "No assets found for this policy ID. Please check if the policy ID is correct."]]
    ELSE IF st = 403
    THEN [throws |-> TRUE,
          error |-> [kind |-> "Error",
                     message |-> "API key error (403 Forbidden). Please check your Blockfrost API key. Details: ",
                     details |-> errorText]]
    ELSE [throws |-> TRUE,
          error |-> [kind |-> "Error", message |-> "API error: ", status |-> st]]

IsLastPageInclusive(n) == n <= count

\* if (assets.length < count) break
IsLastPage(n) == n < count

SliceAll(s, n) == s

\* allHolders.slice(0, maxHolders)
Slice(s, n) == SubSeq(s, 1, Min(Len(s), n))

\* One iteration of the while (true) loop of fetchAssetsForPolicy on a response:
\* "next" is page++, "return" leaves the loop and returns all, "throw" raises.
AssetsPageStep(all, resp) ==
    IF ~ResponseOk(resp)
    THEN LET e == HandleApiError(resp.status, resp.text) IN
         IF e.throws
         THEN [outcome |-> "throw", all |-> all, error |-> e.error]
         ELSE [outcome |-> "return", all |-> all, error |-> NoError]
    ELSE IF ~resp.isArray \/ Len(resp.body) = 0
    THEN [outcome |-> "return", all |-> all, error |-> NoError]
    ELSE IF IsLastPage(Len(resp.body))
    THEN [outcome |-> "return", all |-> all \o resp.body, error |-> NoError]
    ELSE [outcome |-> "next", all |-> all \o resp.body, error |-> NoError]

\* One iteration of the while (allHolders.length < maxHolders) loop of
\* fetchHoldersForAsset; the function returns allHolders.slice(0, maxHolders).
HoldersPageStep(all, resp) ==
    IF ~ResponseOk(resp)
    THEN LET e == HandleApiError(resp.status, resp.text) IN
         IF e.throws
         THEN [outcome |-> "throw", all |-> all, error |-> e.error]
         ELSE [outcome |-> "return", all |-> Slice(all, maxHolders), error |-> NoError]
    ELSE IF ~resp.isArray \/ Len(resp.body) = 0
    THEN [outcome |-> "return", all |-> Slice(all, maxHolders), error |-> NoError]
    ELSE IF IsLastPage(Len(resp.body)) \/ Len(all \o resp.body) >= maxHolders
    THEN [outcome |-> "return", all |-> Slice(all \o resp.body, maxHolders), error |-> NoError]
    ELSE [outcome |-> "next", all |-> all \o resp.body, error |-> NoError]

PageStep(f, all, resp) ==
    IF f = "assets" THEN AssetsPageStep(all, resp) ELSE HoldersPageStep(all, resp)

(* The provider, as the fetchers see it *)

PageSizes == {0, 1, 37, 50, 99, count}
ErrorStatuses == {400, 403, 404, 429, 500}

\* Page p with n records; a record is identified by its page and position.
ArrayPage(p, n) ==
    [status |-> 200, isArray |-> TRUE, text |-> "", body |-> [i \in 1..n |-> <<p, i>>]]

\* What the provider may answer to a request for page p, given the status sent.
PageResponses(p, st) ==
    IF st = 200
    THEN {ArrayPage(p, n) : n \in {m \in PageSizes : m < count \/ p < MaxPages}}
         \cup {[status |-> 200, isArray |-> FALSE, text |-> "{}", body |-> <<>>]}
    ELSE {[status |-> st, isArray |-> FALSE, text |-> "denied", body |-> <<>>]}

\* await fetch(`...?page=${page}&count=${count}...`): the request leaves.
FetchSend ==
    /\ fstate = "ready"
    /\ requests' = Append(requests, page)
    /\ fstate' = "awaiting"
    /\ UNCHANGED <<fetcher, page, acc, status, result, thrown, responses>>
    /\ UNCHANGED <<limiterVars, lookupVars, otherVars>>

\* fetch resolves with the response's status line; the body is read next
\* (await response.json() or await response.text()).
FetchHeaders ==
    /\ fstate = "awaiting"
    /\ \E st \in {200} \cup ErrorStatuses : status' = st
    /\ fstate' = "reading"
    /\ UNCHANGED <<fetcher, page, acc, result, thrown, requests, responses>>
    /\ UNCHANGED <<limiterVars, lookupVars, otherVars>>

\* The body arrives, drawn from the set resps of bodies the provider may send,
\* and the loop body runs up to the next fetch or the exit.
FetchBodyFrom(resps) ==
    /\ fstate = "reading"
    /\ \E resp \in resps :
         LET step == PageStep(fetcher, acc, resp) IN
         /\ responses' = Append(responses, resp)
         /\ acc' = step.all
         /\ page' = IF step.outcome = "next" THEN page + 1 ELSE page
         /\ fstate' = CASE step.outcome = "next" -> "ready"
                        [] step.outcome = "return" -> "returned"
                        [] OTHER -> "thrown"
         /\ result' = IF step.outcome = "return" THEN step.all ELSE <<>>
         /\ thrown' = step.error
    /\ status' = 0
    /\ UNCHANGED <<fetcher, requests>>
    /\ UNCHANGED <<limiterVars, lookupVars, otherVars>>

FetchBody == FetchBodyFrom(PageResponses(page, status))

InitFetch ==
    /\ InitLimiter
    /\ NoLookup
    /\ NoOther
    /\ fetcher \in {"assets", "holders"}
    /\ page = 1
    /\ acc = <<>>
    /\ fstate = "ready"
    /\ status = 0
    /\ result = <<>>
    /\ thrown = NoError
    /\ requests = <<>>
    /\ responses = <<>>

NextFetch ==
    \/ FetchSend
    \/ FetchHeaders
    \/ FetchBody

SpecFetch == InitFetch /\ [][NextFetch]_vars

----------------------------------------------------------------------------
(* Properties of the fetchers *)

\* A successful response carrying a full page of records.
FullPage(resp) == ResponseOk(resp) /\ resp.isArray /\ Len(resp.body) = count

RECURSIVE ConcatBodies(_)
ConcatBodies(rs) ==
    IF rs = <<>> THEN <<>>
    ELSE ConcatBodies(SubSeq(rs, 1, Len(rs) - 1)) \o rs[Len(rs)].body

\* C5: fetchAssetsForPolicy requests pages 1, 2, 3, ... each once; only full
\* pages are followed by another request; and what it returns is the in-order
\* concatenation of the pages received, the last of which is the first page
\* that is short, empty or not an array.
C5_AssetPagesConcatenated ==
    fetcher = "assets" =>
        /\ \A i \in 1..Len(requests) : requests[i] = i
        /\ \A i \in 1..(Len(requests) - 1) : FullPage(responses[i])
        /\ fstate = "returned" =>
              /\ Len(responses) = Len(requests)
              /\ ~FullPage(responses[Len(responses)])
              /\ result = ConcatBodies(responses)

\* Pages of 100, 100 and 37 records were returned as 237 records.
C5_Witness ==
    /\ fetcher = "assets"
    /\ fstate = "returned"
    /\ Len(responses) = 3
    /\ Len(responses[3].body) = 37
    /\ Len(result) = 237

LastFailed == responses # <<>> /\ ~ResponseOk(responses[Len(responses)])

\* C6 as stated: after a non-success response that follows accumulated pages,
\* the fetcher returns the records of those earlier pages to its caller.
C6_ReturnsPartialResults ==
    (LastFailed /\ acc # <<>>) =>
        /\ fstate = "returned"
        /\ result = Slice(ConcatBodies(responses),
                          IF fetcher = "holders" THEN maxHolders ELSE Len(ConcatBodies(responses)))

\* C6 amended: after a non-success response the loop halts, the failed page is
\* not requested again, and the fetcher throws the error classified by status;
\* nothing is returned, the records of the earlier pages are dropped.
C6_ThrowsOnFailedPage ==
    /\ LastFailed =>
          /\ fstate = "thrown"
          /\ result = <<>>
          /\ thrown = HandleApiError(responses[Len(responses)].status,
                                     responses[Len(responses)].text).error
          /\ thrown # NoError
          /\ Len(requests) = Len(responses)
          /\ \A i, j \in 1..Len(requests) : requests[i] = requests[j] => i = j
    /\ fstate = "thrown" => LastFailed

\* A page failed after a full page had been accumulated.
C6_Witness ==
    /\ fstate = "thrown"
    /\ Len(responses) >= 2
    /\ Len(acc) >= count

----------------------------------------------------------------------------
(* Quantities.  The provider sends a quantity as a string of decimal digits of *)
(* any length.  Such an integer is kept here as three limbs <<h, m, l>>, most  *)
(* significant first, of value (h * LimbBase + m) * LimbBase + l.              *)

LimbBase == 2^20

Big(n) == <<0, 0, n>>                   \* a small integer, n < LimbBase
TwoTo53Plus1 == <<2^13, 0, 1>>          \* 9007199254740993 = 2^53 + 1

\* Carries propagated from the low limb upwards.
Normalize(a) ==
    LET m == a[2] + (a[3] \div LimbBase)
    IN  <<a[1] + (m \div LimbBase), m % LimbBase, a[3] % LimbBase>>

\* The exact sum of two integers.
BigAdd(a, b) == Normalize(<<a[1] + b[1], a[2] + b[2], a[3] + b[3]>>)

BigLess(a, b) ==
    \/ a[1] < b[1]
    \/ a[1] = b[1] /\ a[2] < b[2]
    \/ a[1] = b[1] /\ a[2] = b[2] /\ a[3] < b[3]

RECURSIVE BitLen(_)
BitLen(n) == IF n = 0 THEN 0 ELSE 1 + BitLen(n \div 2)

\* The JavaScript Number nearest to an integer: a 53-bit significand, round to
\* nearest, ties to even.  An integer below 2^53 is kept as it is; above, the
\* low k = (bit length - 53) bits are rounded away (they lie in the low limb).
ToNumber(a) ==
    IF a[1] < 2^13 THEN a
    ELSE LET g == 2^(BitLen(a[1]) - 13)
             q == a[3] \div g
             r == a[3] % g
             up == 2 * r > g \/ (2 * r = g /\ q % 2 = 1)
         IN  Normalize(<<a[1], a[2], (IF up THEN q + 1 ELSE q) * g>>)

\* parseInt(holder.quantity, 10): a Number, not an arbitrary-precision integer
ParseInt(str) == ToNumber(str)

\* x + y on Numbers: the exact sum, rounded
NumberAdd(x, y) == ToNumber(BigAdd(x, y))

\* a / d and a % d on BigInts, for a divisor d <= 1000
BigDivMod(a, d) ==
    LET t1 == (a[1] % d) * LimbBase + a[2]
        t0 == (t1 % d) * LimbBase + a[3]
    IN  [quot |-> <<a[1] \div d, t1 \div d, t0 \div d>>, rem |-> t0 % d]

\* n.toString().padStart(width, '0'), as a sequence of digits
PadStart(n, width) == [i \in 1..width |-> (n \div 10^(width - i)) % 10]

\* while (formattedFraction.endsWith('0') && formattedFraction.length > 1) slice(0, -1)
RECURSIVE StripTrailingZeros(_)
StripTrailingZeros(ds) ==
    IF Len(ds) > 1 /\ ds[Len(ds)] = 0
    THEN StripTrailingZeros(SubSeq(ds, 1, Len(ds) - 1))
    ELSE ds

\* formatTokenAmount(amount, decimals), App.tsx 236-253: the string
\* `${int}` (frac = <<>>) or `${int}.${frac}`
FormatTokenAmount(amount, dec) ==
    IF dec = 0 THEN [int |-> amount, frac |-> <<>>]
    ELSE LET qr == BigDivMod(amount, 10^dec)
             formattedFraction == StripTrailingZeros(PadStart(qr.rem, dec))
         IN  IF formattedFraction = <<0>>
             THEN [int |-> qr.quot, frac |-> <<>>]
             ELSE [int |-> qr.quot, frac |-> formattedFraction]

MaxDecimals == 3     \* BigDivMod divides by at most 10^MaxDecimals

\* The fraction digits ds as thousandths (10^-MaxDecimals)
RECURSIVE FracValue(_, _)
FracValue(ds, scale) ==
    IF ds = <<>> THEN 0 ELSE Head(ds) * (scale \div 10) + FracValue(Tail(ds), scale \div 10)

\* parseFloat(quantity) of a formatted amount: the number int + 0.frac.  The
\* value is kept exact; the double parseFloat rounds it to orders the amounts
\* of this model the same way (integers that are Numbers already, or amounts
\* further apart than the spacing of doubles at their size).
ParseFloat(q) == [int |-> q.int, frac |-> FracValue(q.frac, 10^MaxDecimals)]

\* x < y on such numbers
NumberLess(x, y) == BigLess(x.int, y.int) \/ (x.int = y.int /\ x.frac < y.frac)

----------------------------------------------------------------------------
(* The policy lookup: fetchAssets, fetchAssetDetails, fetchHolders and        *)
(* aggregateHoldersForAllAssets, App.tsx 255-279 and 452-568                  *)

MaxAssets == 2       \* the policy lists at most this many assets
MaxRecords == 3      \* besides the bulk listing, the provider holds at most this
                     \* many holder records for the policy

ZeroNumber == [int |-> <<0, 0, 0>>, frac |-> 0]

NewError(msg) == [kind |-> "Error", message |-> msg]

ErrorMessageGeneric(err) == [kind |-> "Error", message |-> "Error fetching assets"]

\* err instanceof Error ? err.message : '...': what setError receives
ErrorMessage(err) == err

IsFungibleTokenStrict(assetsData) ==
    \A i \in 1..Len(assetsData) : assetsData[i].name = assetsData[1].name

\* assetsData.every(asset => !asset.metadata?.name ||
\*                           asset.metadata.name === assetsData[0].metadata?.name)
\* (name "" stands for a missing or empty metadata.name)
IsFungibleToken(assetsData) ==
    \A i \in 1..Len(assetsData) :
        assetsData[i].name = "" \/ assetsData[i].name = assetsData[1].name

\* data.metadata?.decimals || 0, and 0 when the request fails (App.tsx 255-279)
FetchAssetDetails(resp) == IF resp.ok THEN resp.decimals ELSE 0

\* fetchHolders, App.tsx 464-472: formattedHolders
FormatHolders(hs, dec) ==
    [i \in 1..Len(hs) |->
        [address |-> hs[i].address, quantity |-> FormatTokenAmount(hs[i].quantity, dec)]]

\* totalSupply += parseInt(holder.quantity, 10) over the holders in order, from
\* start.  The loop over hs is the loop over its first half followed by the
\* loop over its second half; the value after the first half is computed
\* before the second half is entered.
RECURSIVE SumQuantities(_, _)
SumQuantities(hs, start) ==
    IF hs = <<>> THEN start
    ELSE IF Len(hs) = 1 THEN NumberAdd(start, ParseInt(hs[1].quantity))
    ELSE LET half == Len(hs) \div 2
             mid == SumQuantities(SubSeq(hs, 1, half), start)
         IN  IF Len(mid) = 3
             THEN SumQuantities(SubSeq(hs, half + 1, Len(hs)), mid)
             ELSE mid

\* holdersMap[holder.address] = (holdersMap[holder.address] || 0) + quantity.
\* The object keeps its keys in insertion order (addresses are not integer-like).
MapAdd(map, h) ==
    IF \E i \in 1..Len(map) : map[i].address = h.address
    THEN [i \in 1..Len(map) |->
            IF map[i].address = h.address
            THEN [address |-> h.address,
                  quantity |-> NumberAdd(map[i].quantity, ParseInt(h.quantity))]
            ELSE map[i]]
    ELSE Append(map, [address |-> h.address,
                      quantity |-> NumberAdd(<<0, 0, 0>>, ParseInt(h.quantity))])

\* for (const holder of holders) { ... } of aggregateHoldersForAllAssets, in
\* order: the first half of hs, then the second half on the map so obtained.
RECURSIVE MapAddAll(_, _)
MapAddAll(map, hs) ==
    IF hs = <<>> THEN map
    ELSE IF Len(hs) = 1 THEN MapAdd(map, hs[1])
    ELSE LET half == Len(hs) \div 2
             mid == MapAddAll(map, SubSeq(hs, 1, half))
         IN  IF Len(mid) > 0
             THEN MapAddAll(mid, SubSeq(hs, half + 1, Len(hs)))
             ELSE mid

\* The position after .sort((a, b) => parseFloat(b.quantity) - parseFloat(a.quantity))
\* of the entry at position i: behind every larger entry and, the sort being
\* stable, behind the equal entries that came before it.
SortedPosition(hs, i) ==
    LET key == [j \in 1..Len(hs) |-> ParseFloat(hs[j].quantity)] \o <<>>
    IN  1 + Cardinality({j \in 1..Len(hs) :
                \/ NumberLess(key[i], key[j])
                \/ j < i /\ ~NumberLess(key[j], key[i])})

SortDesc(hs) ==
    LET pos == [i \in 1..Len(hs) |-> SortedPosition(hs, i)] \o <<>>
    IN  [p \in 1..Len(hs) |-> hs[CHOOSE i \in 1..Len(hs) : pos[i] = p]]

\* Object.entries(holdersMap).map(format).sort(...), App.tsx 555-560
CombinedHolders(map, dec) == SortDesc(FormatHolders(map, dec))

(* The provider, as the lookup sees it *)

Names == {"", "X", "Y"}
Addresses == {1, 2, 3}
Quantities == {Big(5), Big(30), TwoTo53Plus1}
Decimals == {0, 2}

\* The policy's asset listing: up to MaxAssets assets, any names; it fits one page.
AssetLists ==
    UNION {{[i \in 1..n |-> [asset |-> i, name |-> nm[i]]] : nm \in [1..n -> Names]} :
             n \in 0..MaxAssets}

\* Listings of at most n holders with addresses that differ: one page of an
\* asset's holder listing never names an address twice.
HolderLists(n) ==
    UNION {{hs \in [1..k -> [address : Addresses, quantity : Quantities]] :
               \A i, j \in 1..k : hs[i].address = hs[j].address => i = j} :
             k \in 0..Min(n, Cardinality(Addresses))}

\* The bulk listing: the one asset of a policy, with more than a page of
\* holders, newest first.
BulkHolder(k) == [address |-> 100 + k, quantity |-> Big(k)]
BulkPage == [i \in 1..count |-> BulkHolder(i)]
\* Its second page, and its second page after one more holder entered the
\* listing between the two requests: the last record of page 1 comes again.
BulkTail == <<BulkHolder(count + 1)>>
BulkTailShifted == <<BulkHolder(count), BulkHolder(count + 1)>>

RECURSIVE CountRecords(_)
CountRecords(fs) ==
    IF fs = <<>> THEN 0
    ELSE (IF Head(fs).bulk THEN 0 ELSE Len(Head(fs).holders)) + CountRecords(Tail(fs))

ArrayBody(b) == [status |-> 200, isArray |-> TRUE, text |-> "", body |-> b]
NotArrayBody == [status |-> 200, isArray |-> FALSE, text |-> "{}", body |-> <<>>]
ErrorBody(st) == [status |-> st, isArray |-> FALSE, text |-> "denied", body |-> <<>>]

\* What the provider may send as the body of the page being read.
LookupResponses ==
    IF status # 200 THEN {ErrorBody(status)}
    ELSE IF fetcher = "assets" THEN {ArrayBody(b) : b \in AssetLists} \cup {NotArrayBody}
    ELSE IF page = 1
    THEN {ArrayBody(b) : b \in HolderLists(MaxRecords - CountRecords(fetched))}
         \cup (IF Len(assets) = 1 THEN {ArrayBody(BulkPage)} ELSE {})
         \cup {NotArrayBody}
    ELSE {ArrayBody(BulkTail), ArrayBody(BulkTailShifted)}

LookupBody == FetchBodyFrom(LookupResponses) /\ lk \in {"assets", "holders"}

\* A call of fetchAssetsForPolicy / fetchHoldersForAsset: its locals
StartFetcher(f) ==
    /\ fetcher' = f
    /\ page' = 1
    /\ acc' = <<>>
    /\ fstate' = "ready"
    /\ status' = 0
    /\ result' = <<>>
    /\ thrown' = NoError
    /\ requests' = <<>>
    /\ responses' = <<>>

\* fetchAssets ends: catch (err) { setError(...) } finally { setLoading(false) }
FinishLookup(err) ==
    /\ error' = err
    /\ loading' = FALSE
    /\ lk' = "done"

\* The Analyze button: fetchAssets up to its first await (App.tsx 485-500).
Analyze ==
    /\ lk = "idle"
    /\ ~loading
    /\ assets' = <<>>
    /\ selectedAsset' = 0
    /\ holders' = <<>>
    /\ totalSupply' = ZeroNumber
    /\ IF ~apiKey
       THEN /\ FinishLookup(ErrorMessage(NewError("Blockfrost API key is not configured")))
            /\ UNCHANGED fetchVars
       ELSE /\ loading' = TRUE
            /\ error' = NoError
            /\ lk' = "assets"
            /\ StartFetcher("assets")
    /\ UNCHANGED <<apiKey, path, decimals, cur, holdersMap, supply, formatted, fetched,
                   holderCalls>>
    /\ UNCHANGED <<limiterVars, otherVars>>

\* fetchAssetsForPolicy has returned or thrown: fetchAssets goes on (App.tsx 500-524)
\* up to the await fetch of fetchAssetDetails.
AssetsFetched ==
    /\ lk = "assets"
    /\ fstate \in {"returned", "thrown"}
    /\ IF fstate = "thrown"
       THEN /\ FinishLookup(ErrorMessage(thrown))
            /\ UNCHANGED <<assets, selectedAsset, path, cur>>
       ELSE IF Len(result) = 0
       THEN /\ FinishLookup(ErrorMessage(NewError("No assets found for this policy ID")))
            /\ UNCHANGED <<assets, selectedAsset, path, cur>>
       ELSE /\ assets' = result
            /\ cur' = 1
            /\ lk' = "details"
            /\ UNCHANGED <<error, loading>>
            /\ IF Len(result) = 1
               THEN path' = "single" /\ selectedAsset' = result[1].asset
               ELSE IF IsFungibleToken(result)
               THEN path' = "aggregate" /\ UNCHANGED selectedAsset
               ELSE path' = "first" /\ selectedAsset' = result[1].asset
    /\ UNCHANGED <<apiKey, holders, totalSupply, decimals, holdersMap, supply, formatted,
                   fetched, holderCalls>>
    /\ UNCHANGED <<limiterVars, fetchVars, otherVars>>

\* fetchAssetDetails answers (or fails, which it swallows); the caller goes on to
\* the first await fetch of fetchHoldersForAsset (App.tsx 457-458, 539-544).
DetailsFetched ==
    /\ lk = "details"
    /\ \E resp \in {[ok |-> TRUE, decimals |-> d] : d \in Decimals}
                   \cup {[ok |-> FALSE, decimals |-> 0]} :
         decimals' = FetchAssetDetails(resp)
    /\ holdersMap' = <<>>
    /\ supply' = <<0, 0, 0>>
    /\ lk' = "holders"
    /\ StartFetcher("holders")
    /\ holderCalls' = Append(holderCalls, assets[cur].asset)
    /\ UNCHANGED <<apiKey, loading, error, assets, selectedAsset, holders, totalSupply,
                   path, cur, formatted, fetched>>
    /\ UNCHANGED <<limiterVars, otherVars>>

\* fetchHoldersForAsset has returned or thrown.
\* In fetchHolders (App.tsx 458-475, 479-482): an error is caught and shown, an
\* empty list becomes an error, otherwise the holders are formatted and
\* findRelatedWallets is awaited.
\* In aggregateHoldersForAllAssets (App.tsx 543-567): an error is rethrown to
\* fetchAssets; otherwise the holders are added to the map and the next asset is
\* fetched, and after the last one the map is sorted and shown.
HoldersFetched ==
    /\ lk = "holders"
    /\ fstate \in {"returned", "thrown"}
    /\ fetched' = IF fstate = "returned"
                  THEN Append(fetched, [asset |-> assets[cur].asset, holders |-> result,
                                        bulk |-> Len(responses) > 0
                                                 /\ responses[1].body = BulkPage])
                  ELSE fetched
    /\ IF fstate = "thrown"
       THEN /\ FinishLookup(ErrorMessage(thrown))
            /\ UNCHANGED <<holders, totalSupply, cur, holdersMap, supply, formatted,
                           holderCalls, fetchVars>>
       ELSE IF path \in {"single", "first"}
       THEN IF Len(result) = 0
            THEN /\ FinishLookup(ErrorMessage(NewError("No holders found for this asset")))
                 /\ UNCHANGED <<holders, totalSupply, cur, holdersMap, supply, formatted,
                                holderCalls, fetchVars>>
            ELSE /\ supply' = SumQuantities(result, <<0, 0, 0>>)
                 /\ formatted' = FormatHolders(result, decimals)
                 /\ lk' = "relations"
                 /\ UNCHANGED <<error, loading, holders, totalSupply, cur, holdersMap,
                                holderCalls, fetchVars>>
       ELSE /\ holdersMap' = MapAddAll(holdersMap, result)
            /\ supply' = SumQuantities(result, supply)
            /\ UNCHANGED formatted
            /\ IF cur < Len(assets)
               THEN /\ cur' = cur + 1
                    /\ StartFetcher("holders")
                    /\ holderCalls' = Append(holderCalls, assets[cur + 1].asset)
                    /\ UNCHANGED <<lk, error, loading, holders, totalSupply>>
               ELSE /\ totalSupply' = ParseFloat(FormatTokenAmount(supply', decimals))
                    /\ holders' = CombinedHolders(holdersMap', decimals)
                    /\ loading' = FALSE
                    /\ lk' = "done"
                    /\ UNCHANGED <<error, cur, holderCalls, fetchVars>>
    /\ UNCHANGED <<apiKey, assets, selectedAsset, path, decimals>>
    /\ UNCHANGED <<limiterVars, otherVars>>

\* findRelatedWallets has returned the holders, in order, with address and
\* quantity as given (App.tsx 446-449); fetchHolders shows them (App.tsx 477-478)
\* and fetchAssets ends.
RelationsFound ==
    /\ lk = "relations"
    /\ totalSupply' = ParseFloat(FormatTokenAmount(supply, decimals))
    /\ holders' = formatted
    /\ loading' = FALSE
    /\ lk' = "done"
    /\ UNCHANGED <<apiKey, error, assets, selectedAsset, path, decimals, cur, holdersMap,
                   supply, formatted, fetched, holderCalls>>
    /\ UNCHANGED <<limiterVars, fetchVars, otherVars>>

InitLookup ==
    /\ InitLimiter
    /\ NoFetch
    /\ NoOther
    /\ lk = "idle"
    /\ apiKey \in BOOLEAN
    /\ loading = FALSE
    /\ error = NoError
    /\ assets = <<>>
    /\ selectedAsset = 0
    /\ holders = <<>>
    /\ totalSupply = ZeroNumber
    /\ path = "none"
    /\ decimals = 0
    /\ cur = 0
    /\ holdersMap = <<>>
    /\ supply = <<0, 0, 0>>
    /\ formatted = <<>>
    /\ fetched = <<>>
    /\ holderCalls = <<>>

NextLookup ==
    \/ Analyze
    \/ FetchSend /\ lk \in {"assets", "holders"}
    \/ FetchHeaders /\ lk \in {"assets", "holders"}
    \/ LookupBody
    \/ AssetsFetched
    \/ DetailsFetched
    \/ HoldersFetched
    \/ RelationsFound

SpecLookup == InitLookup /\ [][NextLookup]_vars

----------------------------------------------------------------------------
(* Properties of the lookup *)

\* The lookup has ended and shows a distribution.
Shown == lk = "done" /\ error = NoError /\ holders # <<>>

\* All records fetchHoldersForAsset returned during the lookup
RECURSIVE AllFetched(_)
AllFetched(fs) == IF fs = <<>> THEN <<>> ELSE Head(fs).holders \o AllFetched(Tail(fs))

\* The exact sum of the raw quantities of address a in the records hs
RECURSIVE ExactSum(_, _)
ExactSum(hs, a) ==
    IF hs = <<>> THEN <<0, 0, 0>>
    ELSE IF Head(hs).address = a
    THEN BigAdd(Head(hs).quantity, ExactSum(Tail(hs), a))
    ELSE ExactSum(Tail(hs), a)

\* C7 as stated: the aggregated distribution holds every address found under
\* any of the assets, with the sum of its raw quantities over all assets,
\* formatted after the summation.
C7_AggregatedQuantityIsExactSum ==
    (Shown /\ path = "aggregate") =>
        \A a \in {h.address : h \in Range(AllFetched(fetched))} :
            \E i \in 1..Len(holders) :
                /\ holders[i].address = a
                /\ holders[i].quantity = FormatTokenAmount(ExactSum(AllFetched(fetched), a),
                                                           decimals)

\* C8 as stated: no address appears twice in the distribution handed to the
\* visualization, whichever path produced it.
C8_AddressesAppearOnce ==
    \A i, j \in 1..Len(holders) : holders[i].address = holders[j].address => i = j

\* q1 < q2 for two formatted amounts
QuantityLess(q1, q2) ==
    \/ BigLess(q1.int, q2.int)
    \/ q1.int = q2.int /\ FracValue(q1.frac, 10^MaxDecimals) < FracValue(q2.frac, 10^MaxDecimals)

\* C9 as stated: the distribution handed to the visualization is in descending
\* order of quantity, whichever path produced it.
C9_OrderedByQuantityDescending ==
    \A i \in 1..(Len(holders) - 1) :
        ~QuantityLess(holders[i].quantity, holders[i + 1].quantity)

\* The branch of fetchAssets has been taken for a policy of several assets.
Branched == path # "none" /\ Len(assets) > 1

\* The holders shown are those of the first asset.
FirstAssetShown ==
    /\ Len(fetched) = 1
    /\ Len(holders) = Len(fetched[1].holders)
    /\ \A i \in 1..Len(holders) :
          /\ holders[i].address = fetched[1].holders[i].address
          /\ holders[i].quantity = FormatTokenAmount(fetched[1].holders[i].quantity, decimals)

FirstAssetOnly ==
    /\ path = "first"
    /\ selectedAsset = assets[1].asset
    /\ \A k \in 1..Len(holderCalls) : holderCalls[k] = assets[1].asset
    /\ Shown => FirstAssetShown

AllAssetsAggregated ==
    /\ path = "aggregate"
    /\ \A k \in 1..Len(holderCalls) : holderCalls[k] = assets[k].asset
    /\ Shown => Len(holderCalls) = Len(assets)

\* C10 as stated: with all names the same the holders are aggregated, and
\* otherwise only the first asset is fetched, shown and selected.
C10_AggregatesOnlyEqualNames ==
    Branched =>
        IF \A i \in 1..Len(assets) : assets[i].name = assets[1].name
        THEN AllAssetsAggregated
        ELSE FirstAssetOnly

\* C10 amended: the holders are aggregated unless some asset carries a name
\* that differs from the first asset's name; an asset without a name counts as
\* matching.  Only in that other case is the first asset alone fetched, shown
\* and selected.
C10_AggregatesUnlessNamedDifferently ==
    Branched =>
        IF \E i \in 1..Len(assets) : assets[i].name # "" /\ assets[i].name # assets[1].name
        THEN FirstAssetOnly
        ELSE AllAssetsAggregated

\* An asset without a name sits beside a named first asset, and the holders
\* of both have been aggregated and are shown.
C10_Witness ==
    /\ Branched
    /\ path = "aggregate"
    /\ Shown
    /\ \E i \in 1..Len(assets) : assets[i].name # assets[1].name

----------------------------------------------------------------------------
(* findRelatedWallets, App.tsx 353-450.  Its address and account lookups are   *)
(* operations of the RateLimiter: an operation is a record [call, holder,      *)
(* kind]; the promise schedule() returns is the task waiting in "address" or   *)
(* "account".                                                                  *)

BATCH_SIZE == 8

MaxCalls == 2        \* findRelatedWallets is called at most this many times
MaxFailures == 2     \* the provider fails at most this many lookups in all

(* The provider, as findRelatedWallets sees it *)

\* addressInfo.stake_address of an address ("" for null): A, B, C and D are
\* addresses of one wallet, E is the only address of another, the rest have
\* no stake key.
StakeOf(a) ==
    IF a \in {"A", "B", "C", "D"} THEN "S" ELSE IF a = "E" THEN "T" ELSE ""

AllAddresses == {"A", "B", "C", "D", "E", "F1", "F2", "F3", "F4", "F5", "F6"}

\* The body of /accounts/${stakeAddress}/addresses
AccountAddresses(stake) == {a \in AllAddresses : StakeOf(a) = stake}

\* A response, or the rejection of fetch
LookupOutcomes == {[status |-> 0, rejected |-> TRUE]}
                  \cup {[status |-> st, rejected |-> FALSE] : st \in {200, 404}}

\* The provider may still fail a lookup.
MayFail == relLog.injected < MaxFailures

\* response.json() fulfils (TRUE) or rejects (FALSE)
ParseOutcomes == IF MayFail THEN BOOLEAN ELSE {TRUE}

\* A formatted holder, as fetchHolders passes it
Holder(a) == [address |-> a, quantity |-> FormatTokenAmount(Big(1500), 2)]

\* The distributions findRelatedWallets is called with; in one no two holders
\* share a stake key, and the last one has more holders than a batch.
RelDistributions ==
    {[i \in 1..Len(as) |-> Holder(as[i])] :
        as \in {<<"C", "D">>, <<"A", "B", "E">>, <<"A", "C">>, <<"C", "E">>,
                <<"A", "B", "F1", "F2", "F3", "F4", "F5", "F6", "C">>}}

(* The function *)

CachedByGroup(cache, a) == {c \in cache : a \in c.addresses}

\* queryClient.getQueryData([`stake-${address}`])
Cached(cache, a) == {c \in cache : c.address = a}

\* queryClient.setQueryData([cacheKey], {stakeAddress, addresses})
SetQueryData(cache, a, stake, addrs) ==
    {c \in cache : c.address # a}
        \cup {[address |-> a, stakeAddress |-> stake, addresses |-> addrs]}

\* stakeAddressMap.set(stakeAddress, addresses): a key keeps its place
MapSet(map, stake, addrs) ==
    IF \E k \in 1..Len(map) : map[k].stake = stake
    THEN [k \in 1..Len(map) |->
            IF map[k].stake = stake THEN [stake |-> stake, addresses |-> addrs] ELSE map[k]]
    ELSE Append(map, [stake |-> stake, addresses |-> addrs])

RelevantUnfiltered(addresses, hs) == addresses

\* [...addresses].filter(addr => holders.some(h => h.address === addr))
RelevantAddresses(addresses, hs) ==
    {a \in addresses : \E i \in 1..Len(hs) : hs[i].address = a}

AddressOkAlways(resp) == TRUE

\* if (!response.ok) return
AddressOk(resp) == ResponseOk(resp)

AccountOkAlways(resp) == TRUE

\* if (stakeResponse.ok) { ... }
AccountOk(resp) == ResponseOk(resp)

TaskRethrow == [rethrow |-> TRUE]

\* try { ... } catch (error) { console.error(...) }: the task's promise
\* fulfils whatever was thrown inside it
TaskCatch == [rethrow |-> FALSE]

BatchOfRest(hs, i) == i..Len(hs)

\* The holders of the batch that starts at index i
BatchOf(hs, i) == i..Min(i + BATCH_SIZE - 1, Len(hs))

\* The cache hits of a batch, in the order of the batch: each sets
\* stakeAddressMap from the cached entry.
RECURSIVE CacheHits(_, _, _, _, _)
CacheHits(map, cache, hs, i, last) ==
    IF i > last THEN map
    ELSE LET hit == Cached(cache, hs[i].address)
             next == IF hit = {} THEN map
                     ELSE LET c == CHOOSE c \in hit : TRUE
                          IN  MapSet(map, c.stakeAddress, c.addresses)
         IN  CacheHits(next, cache, hs, i + 1, last)

\* relatedWallets.get(a) after the forEach of App.tsx 436-444: the group set
\* last for a, without a itself, if that leaves anything
RelatedOf(map, a) ==
    LET at == {k \in 1..Len(map) : a \in map[k].addresses /\ map[k].addresses # {a}}
    IN  IF at = {} THEN {}
        ELSE map[CHOOSE k \in at : \A l \in at : l <= k].addresses \ {a}

WithRelationsForward(hs, map) ==
    [i \in 1..Len(hs) |->
        [address |-> hs[i].address, quantity |-> hs[i].quantity,
         relatedAddresses |-> RelatedOf(map, hs[i].address)
                                 \ {hs[k].address : k \in 1..(i - 1)}]]

\* holders.map(holder => ({...holder, relatedAddresses: ...}))
WithRelations(hs, map) ==
    [i \in 1..Len(hs) |->
        [address |-> hs[i].address, quantity |-> hs[i].quantity,
         relatedAddresses |-> RelatedOf(map, hs[i].address)]]

\* The operation of the RateLimiter that is holder j's lookup of a kind, in a call
OpId(call, j, kind) == (call * 16 + j) * 2 + (IF kind = "account" THEN 1 ELSE 0)
OpHolder(op) == (op \div 2) % 16
OpKind(op) == IF op % 2 = 1 THEN "account" ELSE "address"

TaskAt(j, where, stake) == [task EXCEPT ![j] = [at |-> where, stake |-> stake]]

\* rateLimiter.schedule(...) called for the operations ops, one after the other:
\* each is pushed, and processQueue is started by the first if the limiter is idle.
Submit(ops) ==
    /\ IF ops = <<>>
       THEN UNCHANGED <<tokens, timePassed, queue, processing, running, timerPending,
                        timerLeft, submitted, started>>
       ELSE /\ submitted' = submitted \o ops
            /\ IF LimiterIdle
               THEN ProcessQueue(queue \o ops)
               ELSE /\ queue' = queue \o ops
                    /\ UNCHANGED <<tokens, timePassed, processing, running, timerPending,
                                   timerLeft, started>>
    /\ UNCHANGED <<promise, wokeIdle>>

\* batch.map(async (holder) => ...) for the batch at i, each task up to its first
\* await: a cached holder sets stakeAddressMap and is done, any other schedules
\* its address lookup.
StartBatch(hs, i, map, tk, call, log) ==
    LET batch == BatchOf(hs, i)
        last == Min(i + BATCH_SIZE - 1, Len(hs))
        Miss(j) == Cached(relCache, hs[j].address) = {}
        Hit(j) == ~Miss(j)
        inBatch == [k \in 1..(last - i + 1) |-> i + k - 1]
        misses == SelectSeq(inBatch, Miss)
        hits == SelectSeq(inBatch, Hit)
    IN  /\ batchAt' = i
        /\ relLog' = [log EXCEPT !.sets = @ \o
                         [k \in 1..Len(hits) |->
                            [by |-> hits[k], cached |-> TRUE,
                             addresses |-> (CHOOSE c \in Cached(relCache, hs[hits[k]].address) :
                                               TRUE).addresses]]]
        /\ rel' = "batch"
        /\ stakeAddressMap' = CacheHits(map, relCache, hs, i, last)
        /\ task' = [j \in 1..Len(hs) |->
                      IF j \in batch
                      THEN [at |-> IF Miss(j) THEN "address" ELSE "done", stake |-> ""]
                      ELSE tk[j]]
        /\ Submit([k \in 1..Len(misses) |-> OpId(call, misses[k], "address")])

\* findRelatedWallets(holders, apiKey) is called: its locals, and the first batch.
FindRelatedWallets ==
    /\ rel \in {"idle", "returned"}
    /\ relCalls < MaxCalls
    /\ \E hs \in RelDistributions :
         /\ relHolders' = hs
         /\ StartBatch(hs, 1, <<>>, [j \in 1..Len(hs) |-> [at |-> "new", stake |-> ""]],
                       relCalls + 1,
                       [failed |-> {}, succeeded |-> {}, sets |-> <<>>,
                        injected |-> relLog.injected])
    /\ relCalls' = relCalls + 1
    /\ relResult' = <<>>
    /\ UNCHANGED <<relCache, failed>>
    /\ UNCHANGED <<fetchVars, lookupVars, runs, fmt>>

\* The fetch of the running operation settles: processQueue arms its timer and
\* the task that awaited schedule() goes on (App.tsx 385, 403) or catches.
RelSettle ==
    /\ running # 0
    /\ rel \in {"batch", "thrown"}
    /\ \E resp \in {r \in LookupOutcomes : ResponseOk(r) \/ MayFail} :
         LET j == OpHolder(running)
             ok == IF OpKind(running) = "address" THEN AddressOk(resp) ELSE AccountOk(resp)
         IN  /\ failed' = IF resp.rejected THEN failed \cup {running} ELSE failed
             /\ timerPending' = RearmAfterSettle(~resp.rejected)
             /\ timerLeft' = IF RearmAfterSettle(~resp.rejected) THEN REQUEST_INTERVAL ELSE 0
             /\ task' = IF resp.rejected \/ ~ok
                        THEN TaskAt(j, "done", task[j].stake)
                        ELSE TaskAt(j, IF OpKind(running) = "address"
                                       THEN "addressBody" ELSE "accountBody", task[j].stake)
             /\ relLog' = IF resp.rejected \/ ~ResponseOk(resp)
                          THEN [relLog EXCEPT !.failed = @ \cup {j}, !.injected = @ + 1]
                          ELSE relLog
             /\ rel' = IF resp.rejected /\ TaskCatch.rethrow THEN "thrown" ELSE rel
    /\ running' = 0
    /\ UNCHANGED <<tokens, timePassed, queue, processing, promise, submitted, started,
                   wokeIdle>>
    /\ UNCHANGED <<relHolders, batchAt, stakeAddressMap, relCache, relResult, relCalls>>
    /\ UNCHANGED <<fetchVars, lookupVars, runs, fmt>>

\* await response.json() of the address lookup ends (App.tsx 387-401): without
\* a stake address the task is done, with one it schedules the account lookup.
AddressParsed(j) ==
    /\ j \in DOMAIN task
    /\ task[j].at = "addressBody"
    /\ \E parsed \in ParseOutcomes :
         LET stake == StakeOf(relHolders[j].address) IN
         IF ~parsed
         THEN /\ task' = TaskAt(j, "done", "")
              /\ relLog' = [relLog EXCEPT !.failed = @ \cup {j}, !.injected = @ + 1]
              /\ rel' = IF TaskCatch.rethrow THEN "thrown" ELSE rel
              /\ Submit(<<>>)
         ELSE IF stake = ""
         THEN /\ task' = TaskAt(j, "done", "")
              /\ relLog' = [relLog EXCEPT !.succeeded = @ \cup {j}]
              /\ UNCHANGED rel
              /\ Submit(<<>>)
         ELSE /\ task' = TaskAt(j, "account", stake)
              /\ UNCHANGED <<rel, relLog>>
              /\ Submit(<<OpId(relCalls, j, "account")>>)
    /\ UNCHANGED failed
    /\ UNCHANGED <<relHolders, batchAt, stakeAddressMap, relCache, relResult, relCalls>>
    /\ UNCHANGED <<fetchVars, lookupVars, runs, fmt>>

\* await stakeResponse.json() ends (App.tsx 404-420): the addresses of the
\* account that are holders are kept and, if more than one, set and cached.
AccountParsed(j) ==
    /\ j \in DOMAIN task
    /\ task[j].at = "accountBody"
    /\ \E parsed \in ParseOutcomes :
         LET stake == task[j].stake
             relevant == RelevantAddresses(AccountAddresses(stake), relHolders)
         IN  IF ~parsed
             THEN /\ relLog' = [relLog EXCEPT !.failed = @ \cup {j}, !.injected = @ + 1]
                  /\ rel' = IF TaskCatch.rethrow THEN "thrown" ELSE rel
                  /\ UNCHANGED <<stakeAddressMap, relCache>>
             ELSE /\ UNCHANGED rel
                  /\ IF Cardinality(relevant) > 1
                     THEN /\ stakeAddressMap' = MapSet(stakeAddressMap, stake, relevant)
                          /\ relCache' = SetQueryData(relCache, relHolders[j].address,
                                                      stake, relevant)
                          /\ relLog' = [relLog EXCEPT
                                          !.succeeded = @ \cup {j},
                                          !.sets = Append(@, [by |-> j, cached |-> FALSE,
                                                              addresses |-> relevant])]
                     ELSE /\ relLog' = [relLog EXCEPT !.succeeded = @ \cup {j}]
                          /\ UNCHANGED <<stakeAddressMap, relCache>>
    /\ task' = TaskAt(j, "done", task[j].stake)
    /\ UNCHANGED <<relHolders, batchAt, relResult, relCalls>>
    /\ UNCHANGED <<limiterVars, fetchVars, lookupVars, runs, fmt>>

\* Promise.all of the batch fulfils: the pause before the next batch begins, or
\* after the last batch the groups are turned into the result (App.tsx 430-449).
BatchEnd ==
    /\ rel = "batch"
    /\ \A j \in BatchOf(relHolders, batchAt) : task[j].at = "done"
    /\ IF (batchAt - 1) + BATCH_SIZE < Len(relHolders)
       THEN /\ rel' = "delay"
            /\ UNCHANGED relResult
       ELSE /\ rel' = "returned"
            /\ relResult' = WithRelations(relHolders, stakeAddressMap)
    /\ UNCHANGED <<relHolders, batchAt, task, stakeAddressMap, relCache, relCalls, relLog>>
    /\ UNCHANGED <<limiterVars, fetchVars, lookupVars, runs, fmt>>

\* The pause of REQUEST_INTERVAL * batchSize is over: the limiter's timer, armed
\* before it and for a shorter time, has fired; the next batch starts.
DelayDone ==
    /\ rel = "delay"
    /\ ~timerPending
    /\ StartBatch(relHolders, batchAt + BATCH_SIZE, stakeAddressMap, task, relCalls, relLog)
    /\ UNCHANGED <<relHolders, relCache, relResult, relCalls, failed>>
    /\ UNCHANGED <<fetchVars, lookupVars, runs, fmt>>

\* The clock is followed while the limiter's timer is awaited; reading a
\* body that has arrived takes no time.
RelTick ==
    /\ timerPending
    /\ timerLeft > 0
    /\ \A j \in DOMAIN task : task[j].at \notin {"addressBody", "accountBody"}
    /\ Tick

InitRelations ==
    /\ InitLimiter
    /\ NoFetch
    /\ NoLookup
    /\ NoOther

NextRelations ==
    \/ FindRelatedWallets
    \/ RelSettle
    \/ \E j \in 1..(BATCH_SIZE + 1) : AddressParsed(j)
    \/ \E j \in 1..(BATCH_SIZE + 1) : AccountParsed(j)
    \/ BatchEnd
    \/ DelayDone
    \/ TimerFire
    \/ RelTick

SpecRelations == InitRelations /\ [][NextRelations]_vars

\* Timers fire, the clock advances, fetches and body reads settle, and the
\* continuations of fulfilled promises run.
FairRelations ==
    /\ SpecRelations
    /\ WF_vars(RelTick)
    /\ WF_vars(TimerFire)
    /\ WF_vars(RelSettle)
    /\ WF_vars(\E j \in 1..(BATCH_SIZE + 1) : AddressParsed(j))
    /\ WF_vars(\E j \in 1..(BATCH_SIZE + 1) : AccountParsed(j))
    /\ WF_vars(BatchEnd)
    /\ WF_vars(DelayDone)

----------------------------------------------------------------------------
(* Properties of findRelatedWallets *)

HolderAddresses == {relHolders[k].address : k \in 1..Len(relHolders)}

\* C11 as stated: every related address in a result is the address of a holder
\* of the distribution passed to that call.
C11_RelatedAreHolders ==
    rel = "returned" =>
        \A i \in 1..Len(relResult) : relResult[i].relatedAddresses \subseteq HolderAddresses

\* C12 as stated: two holders that share a stake key and whose address and
\* account lookups were made and succeeded list each other.
C12_SharersAreMutuallyRelated ==
    rel = "returned" =>
        \A i, j \in relLog.succeeded :
            (i # j /\ StakeOf(relHolders[i].address) # ""
                   /\ StakeOf(relHolders[i].address) = StakeOf(relHolders[j].address))
                => relHolders[j].address \in relResult[i].relatedAddresses

C14_FailuresAreContained ==
    /\ [](rel # "thrown")
    /\ [](rel = "returned" =>
            /\ Len(relResult) = Len(relHolders)
            /\ \A i \in 1..Len(relHolders) :
                  /\ relResult[i].address = relHolders[i].address
                  /\ relResult[i].quantity = relHolders[i].quantity
                  /\ task[i].at = "done"
                  /\ \/ \E k \in 1..Len(relLog.sets) :
                           relLog.sets[k].by = i /\ relLog.sets[k].cached
                     \/ OpId(relCalls, i, "address") \in Range(started))
    /\ (rel = "batch") ~> (rel = "returned")

\* A lookup of the first batch failed and the call went on through the second
\* batch and returned.
C14_Witness ==
    /\ rel = "returned"
    /\ Len(relHolders) > BATCH_SIZE
    /\ \E i \in relLog.failed : i <= BATCH_SIZE

----------------------------------------------------------------------------
(* The rate limiter and the calls of a lookup *)

\* C15 as stated: every page request of a lookup was issued as an operation of
\* the rate limiter, which started it and took a permit for it.
C15_EveryCallThroughLimiter ==
    /\ Len(requests) <= Len(started)
    /\ requests # <<>> => tokens < BURST_LIMIT \/ timePassed > 0

----------------------------------------------------------------------------
(* handleAssetChange, App.tsx 570-576: the asset selector starts fetchHolders  *)
(* for another asset while earlier calls of fetchHolders may be in flight.     *)

MaxRuns == 3         \* fetchHolders is called at most this many times

\* The policy's assets, with names that differ: the selector is shown while
\* fetchAssets still awaits fetchHolders for the first of them.
ChangeAssets == [i \in 1..2 |-> [asset |-> i, name |-> IF i = 1 THEN "X" ELSE "Y"]]

\* What fetchHoldersForAsset may return for an asset: its holders are its own.
AssetHolders(a) ==
    {<<>>,
     <<[address |-> 10 * a + 1, quantity |-> Big(30)]>>,
     <<[address |-> 10 * a + 1, quantity |-> Big(30)],
       [address |-> 10 * a + 2, quantity |-> Big(5)]>>}

NewRun(a) ==
    [asset |-> a, at |-> "details", ok |-> FALSE, decimals |-> 0,
     formatted |-> <<>>, supply |-> <<0, 0, 0>>]

\* finally { setLoading(false) } of fetchAssets, which awaits the first call
LoadingAfter(i) == IF i = 1 THEN FALSE ELSE loading

\* The selector's onChange: handleAssetChange up to the first await of fetchHolders.
HandleAssetChange ==
    /\ Len(runs) < MaxRuns
    /\ \E i \in 1..Len(assets) :
         /\ assets[i].asset # selectedAsset
         /\ selectedAsset' = assets[i].asset
         /\ runs' = Append(runs, NewRun(assets[i].asset))
    /\ loading' = TRUE
    /\ error' = NoError
    /\ UNCHANGED <<lk, apiKey, assets, holders, totalSupply, path, decimals, cur,
                   holdersMap, supply, formatted, fetched, holderCalls>>
    /\ UNCHANGED <<limiterVars, fetchVars, relVars, fmt>>

\* await fetchAssetDetails of call i ends (App.tsx 457)
RunDetails(i) ==
    /\ i \in 1..Len(runs)
    /\ runs[i].at = "details"
    /\ \E resp \in {[ok |-> TRUE, decimals |-> d] : d \in Decimals}
                   \cup {[ok |-> FALSE, decimals |-> 0]} :
         runs' = [runs EXCEPT ![i].at = "holders", ![i].decimals = FetchAssetDetails(resp)]
    /\ UNCHANGED <<limiterVars, fetchVars, lookupVars, relVars, fmt>>

\* await fetchHoldersForAsset of call i ends (App.tsx 458-475, 479-482): it
\* threw, or returned no holders, or the holders are formatted.
RunHolders(i) ==
    /\ i \in 1..Len(runs)
    /\ runs[i].at = "holders"
    /\ \/ \E st \in {403, 500} :
            /\ error' = ErrorMessage(HandleApiError(st, "denied").error)
            /\ runs' = [runs EXCEPT ![i].at = "done"]
            /\ loading' = LoadingAfter(i)
       \/ \E hs \in AssetHolders(runs[i].asset) :
            IF Len(hs) = 0
            THEN /\ error' = ErrorMessage(NewError("No holders found for this asset"))
                 /\ runs' = [runs EXCEPT ![i].at = "done"]
                 /\ loading' = LoadingAfter(i)
            ELSE /\ runs' = [runs EXCEPT ![i].at = "relations",
                                         ![i].formatted = FormatHolders(hs, runs[i].decimals),
                                         ![i].supply = SumQuantities(hs, <<0, 0, 0>>)]
                 /\ UNCHANGED <<error, loading>>
    /\ UNCHANGED <<lk, apiKey, assets, selectedAsset, holders, totalSupply, path, decimals,
                   cur, holdersMap, supply, formatted, fetched, holderCalls>>
    /\ UNCHANGED <<limiterVars, fetchVars, relVars, fmt>>

\* await findRelatedWallets of call i ends: setTotalSupply, setHolders (App.tsx 475-478)
RunRelations(i) ==
    /\ i \in 1..Len(runs)
    /\ runs[i].at = "relations"
    /\ totalSupply' = ParseFloat(FormatTokenAmount(runs[i].supply, runs[i].decimals))
    /\ holders' = runs[i].formatted
    /\ runs' = [runs EXCEPT ![i].at = "done", ![i].ok = TRUE]
    /\ loading' = LoadingAfter(i)
    /\ UNCHANGED <<lk, apiKey, error, assets, selectedAsset, path, decimals, cur,
                   holdersMap, supply, formatted, fetched, holderCalls>>
    /\ UNCHANGED <<limiterVars, fetchVars, relVars, fmt>>

\* fetchAssets has set the assets, selected the first and called fetchHolders
\* for it (App.tsx 506, 521-522).
InitChange ==
    /\ InitLimiter
    /\ NoFetch
    /\ NoRelations
    /\ fmt = [at |-> "none"]
    /\ lk = "holders"
    /\ apiKey = TRUE
    /\ loading = TRUE
    /\ error = NoError
    /\ assets = ChangeAssets
    /\ selectedAsset = ChangeAssets[1].asset
    /\ holders = <<>>
    /\ totalSupply = ZeroNumber
    /\ path = "first"
    /\ decimals = 0
    /\ cur = 1
    /\ holdersMap = <<>>
    /\ supply = <<0, 0, 0>>
    /\ formatted = <<>>
    /\ fetched = <<>>
    /\ holderCalls = <<>>
    /\ runs = <<NewRun(ChangeAssets[1].asset)>>

NextChange ==
    \/ HandleAssetChange
    \/ \E i \in 1..MaxRuns : RunDetails(i)
    \/ \E i \in 1..MaxRuns : RunHolders(i)
    \/ \E i \in 1..MaxRuns : RunRelations(i)

SpecChange == InitChange /\ [][NextChange]_vars

\* C16 as stated: once every call of fetchHolders has completed, and the one
\* started last has succeeded, the holders and the total supply displayed are
\* those of the call started last, the call for the selected asset.
C16_LatestLookupWins ==
    (/\ Len(runs) >= 2
     /\ \A i \in 1..Len(runs) : runs[i].at = "done"
     /\ runs[Len(runs)].ok)
        => /\ runs[Len(runs)].asset = selectedAsset
           /\ holders = runs[Len(runs)].formatted
           /\ totalSupply = ParseFloat(FormatTokenAmount(runs[Len(runs)].supply,
                                                         runs[Len(runs)].decimals))

----------------------------------------------------------------------------
(* formatTokenAmount on amounts and decimals of any size, App.tsx 236-253.    *)
(* A BigInt is kept here as its decimal digits, most significant first,        *)
(* without leading zeros; this is the form BigInt(amount) reads and            *)
(* toString() writes.                                                          *)

Zeros(n) == [i \in 1..n |-> 0]

RECURSIVE StripLeadingZeros(_)
StripLeadingZeros(ds) ==
    IF Len(ds) > 1 /\ ds[1] = 0 THEN StripLeadingZeros(Tail(ds)) ELSE ds

RECURSIVE DigitsOf(_)
DigitsOf(n) == IF n < 10 THEN <<n>> ELSE Append(DigitsOf(n \div 10), n % 10)

TenToThe(k) == <<1>> \o Zeros(k)

DigitsLess(a, b) ==
    \/ Len(a) < Len(b)
    \/ /\ Len(a) = Len(b)
       /\ \E i \in 1..Len(a) : a[i] < b[i] /\ \A j \in 1..(i - 1) : a[j] = b[j]

\* the borrow taken from digit i by the digits to its right, in a - b
RECURSIVE Borrow(_, _, _)
Borrow(a, b, i) ==
    IF i >= Len(a) THEN 0
    ELSE IF a[i + 1] - b[i + 1] - Borrow(a, b, i + 1) < 0 THEN 1 ELSE 0

\* a - b on BigInts, for a >= b
DigitsSub(a, b) ==
    LET bp == Zeros(Len(a) - Len(b)) \o b
    IN  StripLeadingZeros([i \in 1..Len(a) |->
                             (a[i] - bp[i] - Borrow(a, bp, i) + 10) % 10] \o <<>>)

\* the carry into digit i from the digits to its right, in a + b
RECURSIVE Carry(_, _, _)
Carry(a, b, i) ==
    IF i >= Len(a) THEN 0
    ELSE (a[i + 1] + b[i + 1] + Carry(a, b, i + 1)) \div 10

\* a + b on BigInts
DigitsAdd(a, b) ==
    LET n  == (IF Len(a) > Len(b) THEN Len(a) ELSE Len(b)) + 1
        ap == Zeros(n - Len(a)) \o a
        bp == Zeros(n - Len(b)) \o b
    IN  StripLeadingZeros([i \in 1..n |-> (ap[i] + bp[i] + Carry(ap, bp, i)) % 10] \o <<>>)

\* a \div 2
Halve(a) ==
    StripLeadingZeros([i \in 1..Len(a) |->
        ((IF i = 1 THEN 0 ELSE a[i - 1] % 2) * 10 + a[i]) \div 2] \o <<>>)

RECURSIVE TimesTwoTo(_, _)
TimesTwoTo(a, k) == IF k = 0 \/ a = <<0>> THEN a ELSE TimesTwoTo(DigitsAdd(a, a), k - 1)

TwoTo53 == DigitsOf(9007199) \o DigitsOf(254740992)

\* The significand of an integer as a Number: the integer shifted right until
\* it is below 2^53, with the last bit shifted out (half) and whether any bit
\* shifted out before it was set (sticky).
RECURSIVE Significand(_, _, _, _)
Significand(q, half, sticky, k) ==
    IF DigitsLess(q, TwoTo53) THEN [q |-> q, half |-> half, sticky |-> sticky, k |-> k]
    ELSE Significand(Halve(q), q[Len(q)] % 2, sticky \/ half = 1, k + 1)

\* The Numbers nearest to an integer n: one, or the two neighbours when n lies
\* halfway between them.
NearestNumbers(n) ==
    LET s    == Significand(n, 0, FALSE, 0)
        down == TimesTwoTo(s.q, s.k)
        up   == TimesTwoTo(DigitsAdd(s.q, <<1>>), s.k)
    IN  IF s.half = 0 THEN {down}
        ELSE IF s.sticky THEN {up}
        ELSE {down, up}

MaxFinitePower == 308    \* 10 ** 309 is Infinity

\* 10 ** decimals, App.tsx 240: a Number, which the language leaves to the
\* implementation to approximate.  It is a Number nearest to the power; where
\* the power is no Number and two Numbers are equally near, either of them.
Exponentiate(dec) == NearestNumbers(TenToThe(dec))

\* the number of times d can be taken from part, and what is left
RECURSIVE TakeAway(_, _, _)
TakeAway(part, d, q) ==
    IF DigitsLess(part, d) THEN [q |-> q, rem |-> part]
    ELSE TakeAway(DigitsSub(part, d), d, q + 1)

\* rawAmount / divisor and rawAmount % divisor on BigInts: long division, one
\* digit of the quotient at a time (the test of the digit makes TLC compute a
\* step before it goes on to the next)
RECURSIVE LongDivision(_, _, _, _, _)
LongDivision(a, d, i, rem, quot) ==
    IF i > Len(a) THEN [quot |-> StripLeadingZeros(quot), rem |-> rem]
    ELSE LET step == TakeAway(StripLeadingZeros(Append(rem, a[i])), d, 0)
         IN  IF step.q \in 0..9 /\ Len(quot) = i - 1
             THEN LongDivision(a, d, i + 1, step.rem, Append(quot, step.q))
             ELSE [quot |-> <<>>, rem |-> <<>>]

DigitsDivMod(a, d) == LongDivision(a, d, 1, <<0>>, <<>>)

\* fractionalPart.toString().padStart(decimals, '0')
PadStartDigits(ds, width) == IF Len(ds) >= width THEN ds ELSE Zeros(width - Len(ds)) \o ds

\* the amounts and decimals formatTokenAmount is called with
RawAmounts ==
    {DigitsOf(n) : n \in {0, 5, 100, 1005, 1500, 1550, 123456}}
        \cup {DigitsOf(9007199) \o DigitsOf(254740993),
              TenToThe(22), <<1, 5>> \o Zeros(21), <<1, 5>> \o Zeros(22),
              TenToThe(23), <<3>> \o Zeros(23),
              <<1>> \o Zeros(16) \o DigitsOf(8388608)}

FormatDecimals == {0, 1, 2, 3, 22, 23, 309}

FormatCalled(amount, dec) ==
    [at |-> "called", amount |-> amount, decimals |-> dec, divisor |-> <<>>,
     integerPart |-> <<>>, fractionalPart |-> <<>>, result |-> [int |-> <<>>, frac |-> <<>>]]

\* if (decimals === 0) return rawAmount.toString()
FormatZero ==
    /\ fmt.at = "called"
    /\ fmt.decimals = 0
    /\ fmt' = [fmt EXCEPT !.at = "returned", !.result = [int |-> fmt.amount, frac |-> <<>>]]
    /\ UNCHANGED <<limiterVars, fetchVars, lookupVars, relVars, runs>>

\* const divisor = BigInt(10 ** decimals)
FormatDivisor ==
    /\ fmt.at = "called"
    /\ fmt.decimals > 0
    /\ fmt.decimals <= MaxFinitePower
    /\ \E n \in Exponentiate(fmt.decimals) :
         fmt' = [fmt EXCEPT !.at = "divisor", !.divisor = n]
    /\ UNCHANGED <<limiterVars, fetchVars, lookupVars, relVars, runs>>

\* BigInt(Infinity) throws a RangeError
FormatRangeError ==
    /\ fmt.at = "called"
    /\ fmt.decimals > MaxFinitePower
    /\ fmt' = [fmt EXCEPT !.at = "thrown"]
    /\ UNCHANGED <<limiterVars, fetchVars, lookupVars, relVars, runs>>

\* integerPart = rawAmount / divisor; fractionalPart = rawAmount % divisor
FormatDivide ==
    /\ fmt.at = "divisor"
    /\ LET qr == DigitsDivMod(fmt.amount, fmt.divisor)
       IN  fmt' = [fmt EXCEPT !.at = "divided", !.integerPart = qr.quot,
                              !.fractionalPart = qr.rem]
    /\ UNCHANGED <<limiterVars, fetchVars, lookupVars, relVars, runs>>

\* padStart, the removal of trailing zeros and the returned string
FormatReturn ==
    /\ fmt.at = "divided"
    /\ LET formattedFraction ==
               StripTrailingZeros(PadStartDigits(fmt.fractionalPart, fmt.decimals))
       IN  fmt' = [fmt EXCEPT !.at = "returned",
                              !.result = IF formattedFraction = <<0>>
                                         THEN [int |-> fmt.integerPart, frac |-> <<>>]
                                         ELSE [int |-> fmt.integerPart,
                                               frac |-> formattedFraction]]
    /\ UNCHANGED <<limiterVars, fetchVars, lookupVars, relVars, runs>>

InitFormat ==
    /\ InitLimiter
    /\ NoFetch
    /\ NoLookup
    /\ NoRelations
    /\ runs = <<>>
    /\ fmt \in {FormatCalled(a, d) : a \in RawAmounts, d \in FormatDecimals}

NextFormat ==
    \/ FormatZero
    \/ FormatDivisor
    \/ FormatRangeError
    \/ FormatDivide
    \/ FormatReturn

SpecFormat == InitFormat /\ [][NextFormat]_vars

\* the last n digits of ds are zeros (ds is a multiple of 10^n)
EndsInZeros(ds, n) ==
    ds = <<0>> \/ (Len(ds) > n /\ \A i \in (Len(ds) - n + 1)..Len(ds) : ds[i] = 0)

\* C17 as stated: the returned string denotes exactly amount / 10^decimals (its
\* digits, the fraction filled up to decimals places, are the digits of the
\* amount), it has no trailing fractional zero, and it has no fraction when the
\* amount is a multiple of 10^decimals.
C17_FormatNeverRounds ==
    fmt.at = "returned" =>
        LET r == fmt.result
        IN  /\ Len(r.frac) <= fmt.decimals
            /\ StripLeadingZeros(r.int \o r.frac \o Zeros(fmt.decimals - Len(r.frac)))
                   = fmt.amount
            /\ r.frac # <<>> => r.frac[Len(r.frac)] # 0
            /\ EndsInZeros(fmt.amount, fmt.decimals) => r.frac = <<>>

----------------------------------------------------------------------------
(* The total supply handed to the visualization, App.tsx 668-671 *)

\* All displayed quantities are whole numbers (no fraction digits).
WholeQuantities(hs) == \A i \in 1..Len(hs) : hs[i].quantity.frac = <<>>

\* holders.reduce((sum, holder) => sum + parseFloat(holder.quantity), 0) for
\* whole quantities: parseFloat gives the Number nearest to the integer and
\* each addition is rounded.  The reduction over hs is the reduction over its
\* first half followed by the reduction over its second half.
RECURSIVE TotalSupplyProp(_, _)
TotalSupplyProp(hs, sum) ==
    IF hs = <<>> THEN sum
    ELSE IF Len(hs) = 1 THEN NumberAdd(sum, ToNumber(hs[1].quantity.int))
    ELSE LET half == Len(hs) \div 2
             mid == TotalSupplyProp(SubSeq(hs, 1, half), sum)
         IN  IF Len(mid) = 3
             THEN TotalSupplyProp(SubSeq(hs, half + 1, Len(hs)), mid)
             ELSE mid

\* The sum of the displayed whole quantities, as an integer.
RECURSIVE DisplayedSum(_, _)
DisplayedSum(hs, sum) ==
    IF hs = <<>> THEN sum
    ELSE IF Len(hs) = 1 THEN BigAdd(sum, hs[1].quantity.int)
    ELSE LET half == Len(hs) \div 2
             mid == DisplayedSum(SubSeq(hs, 1, half), sum)
         IN  IF Len(mid) = 3
             THEN DisplayedSum(SubSeq(hs, half + 1, Len(hs)), mid)
             ELSE mid

\* C18 as stated, for distributions of whole quantities: after a successful
\* lookup the total supply handed to the visualization is the sum of the
\* quantities of the holders displayed.
C18_TotalSupplyIsSumOfDisplayed ==
    (Shown /\ WholeQuantities(holders)) =>
        TotalSupplyProp(holders, <<0, 0, 0>>) = DisplayedSum(holders, <<0, 0, 0>>)

----------------------------------------------------------------------------
(* The cap of fetchHoldersForAsset *)

\* The records of the first i pages received
Accumulated(i) == ConcatBodies(SubSeq(responses, 1, i))

\* C19: fetchHoldersForAsset requests pages 1, 2, ... each once; it requests
\* another page only after a full page and with fewer than maxHolders records
\* accumulated; and it returns at most maxHolders records, the first
\* maxHolders records, in order, of the pages it received.
C19_HoldersCappedAtMax ==
    fetcher = "holders" =>
        /\ \A i \in 1..Len(requests) : requests[i] = i
        /\ \A i \in 1..(Len(requests) - 1) :
              FullPage(responses[i]) /\ Len(Accumulated(i)) < maxHolders
        /\ fstate = "returned" =>
              /\ Len(responses) = Len(requests)
              /\ Len(result) <= maxHolders
              /\ result = SubSeq(Accumulated(Len(responses)), 1,
                                 Min(Len(Accumulated(Len(responses))), maxHolders))

\* Two full pages were received and the first 150 of their 200 records returned.
C19_Witness ==
    /\ fetcher = "holders"
    /\ fstate = "returned"
    /\ Len(responses) = 2
    /\ Len(Accumulated(2)) = 2 * count
    /\ Len(result) = maxHolders
    /\ result[maxHolders] = <<2, maxHolders - count>>

----------------------------------------------------------------------------
(* Failed page requests of a lookup *)

\* The message for the status st of a failed response with body text
Classified(msg, st, text) ==
    IF st = 404
    THEN msg.message = "No assets found for this policy ID. Please check if the policy ID is correct."
    ELSE IF st = 403
    THEN /\ msg.message = "API key error (403 Forbidden). Please check your Blockfrost API key. Details: "
         /\ msg.details = text
    ELSE msg.message = "API error: " /\ msg.status = st

FailedResponse == responses[Len(responses)]

----------------------------------------------------------------------------
(* The relation findRelatedWallets returns *)

\* Holder i of the result lists the address of holder j.
Relates(i, j) == relResult[j].address \in relResult[i].relatedAddresses

\* C21: in every result the relation is symmetric over the holders of the
\* distribution.
C21_RelationIsSymmetric ==
    rel = "returned" =>
        \A i, j \in 1..Len(relResult) : Relates(i, j) <=> Relates(j, i)

\* A result in which two holders list each other, returned by a call that
\* found a group in the cache.
C21_Witness ==
    /\ rel = "returned"
    /\ \E i, j \in 1..Len(relResult) : i # j /\ Relates(i, j) /\ Relates(j, i)
    /\ \E k \in 1..Len(relLog.sets) : relLog.sets[k].cached

\* No two holders of the distribution share a stake key.
NoSharedStakeKey ==
    \A i, j \in 1..Len(relHolders) :
        (i # j /\ StakeOf(relHolders[i].address) # "")
            => StakeOf(relHolders[i].address) # StakeOf(relHolders[j].address)

\* C22 as stated: a holder is related only to other addresses of its own stake
\* key, and when no two holders of the distribution share a stake key every
\* holder's relatedAddresses is empty.
C22_OnlySharersAreRelated ==
    rel = "returned" =>
        /\ \A i \in 1..Len(relResult) : \A b \in relResult[i].relatedAddresses :
              /\ b # relResult[i].address
              /\ StakeOf(b) # ""
              /\ StakeOf(b) = StakeOf(relResult[i].address)
        /\ NoSharedStakeKey =>
              \A i \in 1..Len(relResult) : relResult[i].relatedAddresses = {}

----------------------------------------------------------------------------
(* The cache of findRelatedWallets *)

\* The batch of holder j
BatchNo(j) == (j - 1) \div BATCH_SIZE

\* Holder j was served from the cache in this call.
ServedFromCache(j) ==
    \E k \in 1..Len(relLog.sets) : relLog.sets[k].by = j /\ relLog.sets[k].cached

\* A lookup of holder j was submitted to the rate limiter in this call.
LookupSubmitted(j) ==
    \/ OpId(relCalls, j, "address") \in Range(submitted)
    \/ OpId(relCalls, j, "account") \in Range(submitted)

\* C23 as stated: once the group of a stake key has been computed for one
\* holder, no lookup is submitted for another address of that group.  (The
\* group was recorded in an earlier batch of the call, so it was computed
\* before the tasks of holder j's batch began.)
C23_GroupMembersServedFromCache ==
    \A j \in 1..Len(relHolders) :
        (\E k \in 1..Len(relLog.sets) :
            /\ BatchNo(relLog.sets[k].by) < BatchNo(j)
            /\ relHolders[j].address \in relLog.sets[k].addresses)
        => ~LookupSubmitted(j)

\* C23 amended: a holder is served from the cache exactly when the cache holds
\* an entry under its own address; then no lookup is submitted for it.  Every
\* other holder has its address lookup submitted when its batch starts, also
\* when its address belongs to a group cached or computed for another address.
C23_ServedFromOwnEntryOnly ==
    \A j \in 1..Len(relHolders) :
        IF ServedFromCache(j)
        THEN /\ \E c \in relCache : c.address = relHolders[j].address
             /\ ~LookupSubmitted(j)
        ELSE task[j].at # "new" => OpId(relCalls, j, "address") \in Range(submitted)

\* In one call a holder was served from the cache and a lookup was submitted
\* for another holder whose address is in the cached group.
C23_Witness ==
    \E i, j \in 1..Len(relHolders) :
        /\ ServedFromCache(i)
        /\ ~ServedFromCache(j)
        /\ \E c \in relCache :
              c.address = relHolders[i].address /\ relHolders[j].address \in c.addresses
        /\ LookupSubmitted(j)

----------------------------------------------------------------------------
(* The batches of findRelatedWallets *)

\* The holders whose task awaits a lookup or reads its body
Outstanding ==
    {j \in 1..Len(task) : task[j].at \in {"address", "addressBody", "account", "accountBody"}}

\* The limiter holds or runs a lookup of holder j of this call.
LookupPending(j) ==
    \E kind \in {"address", "account"} :
        OpId(relCalls, j, kind) \in Range(queue) \cup {running}

\* C24: the holders are processed in consecutive batches of BATCH_SIZE.  When a
\* task of a holder has begun, every task of the earlier batches has ended and
\* none of their lookups is queued or running; a lookup is submitted only for
\* a holder whose task has begun; and the holders with lookups outstanding are
\* at most BATCH_SIZE, all of the current batch.
C24_BatchesRunOneAfterTheOther ==
    /\ \A j \in 1..Len(task) :
          /\ task[j].at # "new" =>
                \A i \in 1..Len(task) :
                    BatchNo(i) < BatchNo(j) => task[i].at = "done" /\ ~LookupPending(i)
          /\ LookupSubmitted(j) => task[j].at # "new"
    /\ Cardinality(Outstanding) <= BATCH_SIZE
    /\ \A j \in Outstanding : BatchNo(j) = BatchNo(batchAt)

\* The second batch has lookups outstanding after a first batch of BATCH_SIZE
\* holders, all with lookups, has settled.
C24_Witness ==
    /\ batchAt > BATCH_SIZE
    /\ Outstanding # {}
    /\ \A i \in 1..BATCH_SIZE : OpId(relCalls, i, "address") \in Range(started)

----------------------------------------------------------------------------
(* The end of a policy lookup *)

\* C25 as stated: the distribution displayed after a successful lookup is the
\* one findRelatedWallets was called with and returned, holder by holder, on
\* every path of the lookup.
C25_ResolverRanOnDisplayed ==
    Shown =>
        /\ formatted # <<>>
        /\ Len(holders) = Len(formatted)
        /\ \A i \in 1..Len(holders) : holders[i].address = formatted[i].address

\* C26 as stated: when fetchAssets has finished, holders are displayed or an
\* error message is set, on every path of the lookup.
C26_NothingShownMeansError ==
    lk = "done" => holders # <<>> \/ error # NoError

----------------------------------------------------------------------------
(* The loading flag *)

\* C27 as stated: when every operation that set the loading flag (fetchAssets
\* with the first call of fetchHolders, and the asset selections after it) has
\* completed or failed, loading is false again and Analyze is enabled.
C27_LoadingResetWhenDone ==
    (\A i \in 1..Len(runs) : runs[i].at = "done") => ~loading

----------------------------------------------------------------------------
(* The pace and the single drain of the RateLimiter *)

\* C28: an operation is started only while no other operation runs, and never
\* while the timer armed when the previous operation settled still has time
\* left: REQUEST_INTERVAL has passed since then, whatever the permit count and
\* however many operations wait in the queue.
C28_OneAtATimeAndSpaced ==
    [][started' # started =>
          /\ running = 0
          /\ timerPending => timerLeft = 0
          /\ Len(started') = Len(started) + 1]_vars

\* A queued operation runs, started after the interval that followed the
\* operation before it, while another still waits in the queue.
C28_Witness ==
    /\ Len(started) >= 2
    /\ running = started[Len(started)]
    /\ queue # <<>>
    /\ started[Len(started) - 1] \notin wokeIdle \/ Len(started) >= 3

\* C29: with processing false the queue is empty and nothing runs or is armed;
\* while processing is true an operation is in flight or a timer is pending,
\* never both; so a non-empty queue always has something that will drain it.
\* schedule() starts processQueue only on an idle limiter, and a settling
\* operation arms the only timer.
C29_SingleDrainNoLostWakeup ==
    /\ [](/\ ~processing => queue = <<>> /\ running = 0 /\ ~timerPending
          /\ processing => running # 0 \/ timerPending
          /\ queue # <<>> => running # 0 \/ timerPending
          /\ ~(running # 0 /\ timerPending))
    /\ [][/\ (started' # started /\ ~timerPending) => ~processing
          /\ (running # 0 /\ running' = 0) => ~timerPending /\ timerPending']_vars

\* Operations were submitted while one was in flight and while the timer was
\* pending, and the queue is being drained.
C29_Witness ==
    /\ Len(submitted) >= 3
    /\ Cardinality(wokeIdle) = 1
    /\ timerPending
    /\ queue # <<>>
    /\ Len(started) >= 2

\* C30: the permit count never drops below BURST_LIMIT - 1, and whenever
\* processQueue looks at the permits after refillTokens there is one: the
\* wait-for-token-refill branch is not taken.
C30_PermitsNeverRunLow ==
    /\ tokens >= BURST_LIMIT - 1
    /\ RefillTokens(tokens, timePassed) > 0

\* Three operations submitted together have been started one after the other
\* and a fourth waits; one permit is out.
C30_Witness ==
    /\ Len(started) >= 3
    /\ Cardinality(wokeIdle) = 1
    /\ running # 0
    /\ tokens = BURST_LIMIT - 1

====
